---- MODULE Spec2Model ----
(***************************************************************************)
(* Model of KRR_OneVsAll_RandBin.cpp: one-vs-all kernel ridge regression   *)
(* on Random Binning features.                                             *)
(*                                                                         *)
(*   - main() is a state machine over its program positions (pc): label    *)
(*     recoding, the (lambda, sigma) sweep, the construction of the joint  *)
(*     sparse store, its split into train/test views, the identity         *)
(*     preconditioner, the per-class solves, prediction, scope exit.       *)
(*   - ConvertYtrain and the two Performance overloads are operators,      *)
(*     applied by a call harness to bounded inputs.                        *)
(*                                                                         *)
(* The library behind randFeature.hpp / LibCMatrix.hpp is not part of the  *)
(* source tree.  random_binning_feature, SPointArray::GetSubset, MatVec,   *)
(* MatMat, PCG::Solve and DVector::Max are modelled from their contracts;  *)
(* the numerical products and the solver are uninterpreted (a record that  *)
(* names the operation and its arguments).                                 *)
(*                                                                         *)
(* A double is a fixed-point integer with Scale units per 1.0, so that the *)
(* (int) casts of the source truncate.                                     *)
(***************************************************************************)
EXTENDS Integers, Sequences, FiniteSets, TLC

VARIABLES
  pc,             \* position of main()
  args,           \* command line and data sizes (read once, never written)
  ytrain,         \* DVector ytrain (overwritten by GetColumn when multiclass)
  Ytrain,         \* DMatrix Ytrain (recoded labels)
  ii, k,          \* sweep loop indices (lambda, sigma)
  instances_new,  \* generator output of the current sweep point
  Xdata_randbin,  \* joint sparse store
  Xtrain, Xtest,  \* sparse train / test views (the inner SPointArrays)
  dims,           \* [m, N, M] of the current sweep point
  W, w,           \* weight matrix / weight vector
  EYE,            \* identity preconditioner
  i,              \* class loop index
  yy,             \* right-hand side Z'y
  pcg,            \* the PCG object of the current class iteration
  resRead,        \* the ResHistory index read by verbose reporting
  pred,           \* Ytest_predict / ytest_predict
  visited,        \* history: how often each (ii, k) body was entered
  generated,      \* history: number of generator calls
  solveLog,       \* history: the solves of the current sweep point
  fn, arg, ret    \* call harness for the pure functions

vars == <<pc, args, ytrain, Ytrain, ii, k, instances_new, Xdata_randbin,
          Xtrain, Xtest, dims, W, w, EYE, i, yy, pcg, resRead, pred,
          visited, generated, solveLog, fn, arg, ret>>

mainVars == <<pc, args, ytrain, Ytrain, ii, k, instances_new, Xdata_randbin,
              Xtrain, Xtest, dims, W, w, EYE, i, yy, pcg, resRead, pred,
              visited, generated, solveLog>>

callVars == <<fn, arg, ret>>

-----------------------------------------------------------------------------
(* Bounds of the model.                                                    *)

MaxClasses == 3    \* NumClasses ranges over 1..MaxClasses
MaxLambda == 2     \* Num_lambda ranges over 1..MaxLambda
MaxSigma == 2      \* Num_sigma ranges over 1..MaxSigma
MaxIt == 1         \* MAXIT ranges over 0..MaxIt
MaxR == 2          \* r ranges over 1..MaxR
MaxPoints == 2     \* n_train + n_test <= MaxPoints
MaxLen == 2        \* vector lengths handed to the scorers and ConvertYtrain
MaxCells == 6      \* rows * columns of a score matrix handed to the scorer

(* Fixed-point unit of a double.                                           *)
Scale == 10

-----------------------------------------------------------------------------
(* Values.                                                                 *)

\* (int)x of a double x: truncation toward zero.
IntCast(x) == IF x >= 0 THEN x \div Scale ELSE -((-x) \div Scale)

\* (double)n of an integer n.
ToDouble(n) == n * Scale

RECURSIVE SeqMax(_)
SeqMax(s) == IF Len(s) = 0 THEN 0
             ELSE LET rest == SeqMax(SubSeq(s, 1, Len(s) - 1))
                  IN IF s[Len(s)] > rest THEN s[Len(s)] ELSE rest

RECURSIVE SeqSum(_)
SeqSum(s) == IF Len(s) = 0 THEN 0 ELSE s[1] + SeqSum(Tail(s))

\* DMatrix, column-major: rows = GetM(), cols = GetN().
EmptyMatrix == [rows |-> 0, cols |-> 0, col |-> <<>>]

MatrixInit(nr, nc, v) == [rows |-> nr, cols |-> nc, col |-> [c \in 1..nc |-> v]]

GetColumn(A, c) == A.col[c + 1]

SetColumn(A, c, v) == [A EXCEPT !.col[c + 1] = v]

GetRow(A, q) == [c \in 1..A.cols |-> A.col[c][q + 1]]

\* DVector::Init(n) of a weight-space vector.
Zeros(n) == [op |-> "zeros", n |-> n]

NoVector == [op |-> "none"]

\* SPointArray: row-compressed store.
NoStore == [state |-> "none", rows |-> 0, cols |-> 0, nnz |-> 0,
            start |-> <<>>, idx |-> <<>>, X |-> <<>>]

ReleasedStore == [NoStore EXCEPT !.state = "released"]

GarbageStore == [NoStore EXCEPT !.state = "garbage"]

-----------------------------------------------------------------------------
(* random_binning_feature (external): one row per point, r pairs per row,  *)
(* pair j produced by binning function j.  Each function owns a block of   *)
(* ids disjoint from every other function's block; within a function the   *)
(* bins are numbered in order of first appearance, so the bins of the      *)
(* points under one function form a restricted growth string.  Ids are     *)
(* 1-based; the weight is 1.                                               *)

RECURSIVE RGS(_)
RGS(n) == IF n = 0 THEN {<<>>}
          ELSE UNION {{Append(s, b) : b \in 1..(SeqMax(s) + 1)} : s \in RGS(n - 1)}

\* Which block of ids a function owns: in function order, or in reverse.
Layouts == {"ascending", "descending"}

Base(layout, j, r, n) == IF layout = "ascending" THEN (j - 1) * n ELSE (r - j) * n

GenRows(layout, G, r, n) ==
  [q \in 1..n |-> [j \in 1..r |->
      [first |-> Base(layout, j, r, n) + G[j][q], second |-> ToDouble(1)]]]

GenOutputs(r, n) == {GenRows(layout, G, r, n) : layout \in Layouts, G \in [1..r -> RGS(n)]}

-----------------------------------------------------------------------------
(* The joint store, lines 191-214.                                         *)

\* lines 193-197: dd after the first cnt rows.
RECURSIVE ComputeDD(_, _, _)
ComputeDD(inst, r, cnt) ==
  IF cnt = 0 THEN 0
  ELSE LET dd == ComputeDD(inst, r, cnt - 1)
       IN IF dd < inst[cnt][r].first THEN inst[cnt][r].first ELSE dd

\* lines 203-213: mystart, myidx, myX after the first cnt rows.
RECURSIVE FillRows(_, _, _)
FillRows(inst, r, cnt) ==
  IF cnt = 0 THEN [start |-> <<>>, idx |-> <<>>, X |-> <<>>]
  ELSE LET p == FillRows(inst, r, cnt - 1)
           s == IF cnt = 1 THEN 0 ELSE p.start[cnt - 1] + r
       IN [start |-> Append(p.start, s),
           idx |-> p.idx \o [j \in 1..Len(inst[cnt]) |-> inst[cnt][j].first - 1],
           X |-> p.X \o [j \in 1..Len(inst[cnt]) |-> inst[cnt][j].second]]

\* Mutant of BuildJointStore: nnz counts the training rows only.
BuildJointStore_TrainNnz(inst, r, ntrain, ntest) ==
  LET nnz == r * ntrain
      dd == ComputeDD(inst, r, Len(inst))
      f == FillRows(inst, r, Len(inst))
  IN [state |-> "live", rows |-> ntrain + ntest, cols |-> dd, nnz |-> nnz,
      start |-> Append(f.start, nnz), idx |-> f.idx, X |-> f.X]

\* lines 191-214.
BuildJointStore(inst, r, ntrain, ntest) ==
  LET nnz == r * (ntrain + ntest)
      dd == ComputeDD(inst, r, Len(inst))
      f == FillRows(inst, r, Len(inst))
  IN [state |-> "live", rows |-> ntrain + ntest, cols |-> dd, nnz |-> nnz,
      start |-> Append(f.start, nnz), idx |-> f.idx, X |-> f.X]

\* SPointArray::GetSubset (external): an independent store holding rows
\* [startRow, startRow + numRows), offsets renumbered from 0.
GetSubset(S, startRow, numRows) ==
  IF S.state # "live" THEN GarbageStore
  ELSE LET lo == S.start[startRow + 1]
           hi == S.start[startRow + numRows + 1]
       IN [state |-> "live", rows |-> numRows, cols |-> S.cols, nnz |-> hi - lo,
           start |-> [t \in 1..(numRows + 1) |-> S.start[startRow + t] - lo],
           idx |-> SubSeq(S.idx, lo + 1, hi), X |-> SubSeq(S.X, lo + 1, hi)]

\* lines 246-256: the identity preconditioner.
BuildEye(MM) ==
  [state |-> "live", rows |-> MM, cols |-> MM, nnz |-> MM,
   start |-> [t \in 1..(MM + 1) |-> IF t <= MM THEN t - 1 ELSE MM + 1],
   idx |-> [t \in 1..MM |-> t - 1],
   X |-> [t \in 1..MM |-> ToDouble(1)]]

\* SPointArray::MatVec / MatMat, PCG::Solve (external): uninterpreted.
MatVec(A, x, mode) == [op |-> "MatVec", A |-> A, x |-> x, mode |-> mode]

MatMat(A, B) == [op |-> "MatMat", A |-> A, B |-> B]

PCGSolve(A, b, x0, prec, maxit, lambda) ==
  [op |-> "PCG", A |-> A, b |-> b, x0 |-> x0, prec |-> prec, maxit |-> maxit,
   lambda |-> lambda]

NoPcg == [sol |-> NoVector, Iter |-> -1]

NoRead == [at |-> -1, len |-> -1, done |-> FALSE]

NoDims == [m |-> 0, N |-> 0, M |-> 0]

-----------------------------------------------------------------------------
(* ConvertYtrain, lines 377-388.                                           *)

\* Mutant of RecodeColumn: +1 for every class id up to the label.
RecodeColumn_UpTo(y, c) == [q \in 1..Len(y) |-> IF IntCast(y[q]) >= c THEN ToDouble(1) ELSE ToDouble(-1)]

\* lines 381-385: the recoded column of class c.
RecodeColumn(y, c) == [q \in 1..Len(y) |-> IF IntCast(y[q]) = c THEN ToDouble(1) ELSE ToDouble(-1)]

RECURSIVE ConvertColumns(_, _, _)
ConvertColumns(Y, y, cnt) ==
  IF cnt = 0 THEN Y
  ELSE SetColumn(ConvertColumns(Y, y, cnt - 1), cnt - 1, RecodeColumn(y, cnt - 1))

ConvertYtrain(y, NumClasses) ==
  ConvertColumns(MatrixInit(Len(y), NumClasses, [q \in 1..Len(y) |-> 0]), y, NumClasses)

-----------------------------------------------------------------------------
(* main(): inputs.                                                         *)

\* Labels of n points: class ids 0..NumClasses-1 when multiclass, else -1 / +1.
Labels(NumClasses, n) ==
  IF NumClasses > 2 THEN [1..n -> {ToDouble(c) : c \in 0..(NumClasses - 1)}]
  ELSE [1..n -> {ToDouble(-1), ToDouble(1)}]

\* lines 81-99 and 122-127: the arguments and the data that was read.
Args(nc, rr, nl, ns, mi, vb, ntr, nte, y) ==
  [NumClasses |-> nc, r |-> rr, Num_lambda |-> nl, Num_sigma |-> ns,
   MAXIT |-> mi, verbose |-> vb, Xtrain_N |-> ntr, Xtest_N |-> nte, ytrain0 |-> y]

\* Runs that vary the sweep, the class count, the iteration cap and verbosity.
SweepArgsOf(nc) ==
  {Args(nc, 1, nl, ns, mi, vb, 1, 1, y) :
     nl \in 1..MaxLambda, ns \in 1..MaxSigma, mi \in 0..MaxIt, vb \in BOOLEAN,
     y \in Labels(nc, 1)}

SweepArgs == UNION {SweepArgsOf(nc) : nc \in 1..MaxClasses}

\* Runs that vary the rank and the numbers of training and test points.
StoreArgs ==
  {a \in {Args(2, rr, 1, 1, MaxIt, FALSE, ntr, nte, [q \in 1..ntr |-> ToDouble(1)]) :
            rr \in 1..MaxR, ntr \in 0..MaxPoints, nte \in 0..MaxPoints} :
     a.Xtrain_N + a.Xtest_N <= MaxPoints}

\* Runs that vary the training labels.
LabelArgsOf(nc) ==
  {Args(nc, 1, 1, 1, MaxIt, TRUE, MaxPoints, 0, y) : y \in Labels(nc, MaxPoints)}

LabelArgs == UNION {LabelArgsOf(nc) : nc \in 1..MaxClasses}

SweepPoints(a) == (0..(a.Num_lambda - 1)) \X (0..(a.Num_sigma - 1))

NoCall == [NumClasses |-> 0]

Init ==
  /\ args \in SweepArgs \cup StoreArgs \cup LabelArgs
  /\ pc = "convert"
  /\ ytrain = args.ytrain0
  /\ Ytrain = EmptyMatrix
  /\ ii = 0 /\ k = 0
  /\ instances_new = <<>>
  /\ Xdata_randbin = NoStore /\ Xtrain = NoStore /\ Xtest = NoStore
  /\ dims = NoDims
  /\ W = EmptyMatrix /\ w = NoVector
  /\ EYE = NoStore
  /\ i = 0
  /\ yy = NoVector
  /\ pcg = NoPcg
  /\ resRead = NoRead
  /\ pred = NoVector
  /\ visited = [p \in SweepPoints(args) |-> 0]
  /\ generated = 0
  /\ solveLog = <<>>
  /\ fn = "none" /\ arg = NoCall /\ ret = [kind |-> "none"]

-----------------------------------------------------------------------------
(* main(): steps.                                                          *)

\* lines 136-143: recode the labels when multiclass, enter the lambda loop.
ConvertLabels ==
  /\ pc = "convert"
  /\ Ytrain' = IF args.NumClasses > 2 THEN ConvertYtrain(ytrain, args.NumClasses) ELSE Ytrain
  /\ ii' = 0
  /\ pc' = "lambda_loop"
  /\ UNCHANGED <<args, ytrain, k, instances_new, Xdata_randbin, Xtrain, Xtest, dims,
                 W, w, EYE, i, yy, pcg, resRead, pred, visited, generated, solveLog,
                 callVars>>

\* line 143 / 146: test of the lambda loop; lines 305-309 on exit.
LambdaLoop ==
  /\ pc = "lambda_loop"
  /\ IF ii < args.Num_lambda
       THEN k' = 0 /\ pc' = "sigma_loop"
       ELSE k' = k /\ pc' = "done"
  /\ UNCHANGED <<args, ytrain, Ytrain, ii, instances_new, Xdata_randbin, Xtrain, Xtest,
                 dims, W, w, EYE, i, yy, pcg, resRead, pred, visited, generated,
                 solveLog, callVars>>

\* line 146 / 143: test of the sigma loop; enters the body of one sweep point.
SigmaLoop ==
  /\ pc = "sigma_loop"
  /\ IF k < args.Num_sigma
       THEN /\ pc' = "generate"
            /\ visited' = [visited EXCEPT ![<<ii, k>>] = @ + 1]
            /\ ii' = ii
       ELSE /\ pc' = "lambda_loop"
            /\ visited' = visited
            /\ ii' = ii + 1
  /\ solveLog' = <<>>
  /\ UNCHANGED <<args, ytrain, Ytrain, k, instances_new, Xdata_randbin, Xtrain, Xtest,
                 dims, W, w, EYE, i, yy, pcg, resRead, pred, generated, callVars>>

\* lines 149-188: reseed, convert the dense points, generate the features.
Generate ==
  /\ pc = "generate"
  /\ instances_new' \in GenOutputs(args.r, args.Xtrain_N + args.Xtest_N)
  /\ generated' = generated + 1
  /\ pc' = "build"
  /\ UNCHANGED <<args, ytrain, Ytrain, ii, k, Xdata_randbin, Xtrain, Xtest, dims,
                 W, w, EYE, i, yy, pcg, resRead, pred, visited, solveLog, callVars>>

\* lines 191-214: build the joint store.
BuildStore ==
  /\ pc = "build"
  /\ Xdata_randbin' = BuildJointStore(instances_new, args.r, args.Xtrain_N, args.Xtest_N)
  /\ pc' = "subset_train"
  /\ UNCHANGED <<args, ytrain, Ytrain, ii, k, instances_new, Xtrain, Xtest, dims,
                 W, w, EYE, i, yy, pcg, resRead, pred, visited, generated, solveLog,
                 callVars>>

\* lines 216-219: training view.
SubsetTrain ==
  /\ pc = "subset_train"
  /\ Xtrain' = GetSubset(Xdata_randbin, 0, args.Xtrain_N)
  /\ pc' = "subset_test"
  /\ UNCHANGED <<args, ytrain, Ytrain, ii, k, instances_new, Xdata_randbin, Xtest, dims,
                 W, w, EYE, i, yy, pcg, resRead, pred, visited, generated, solveLog,
                 callVars>>

\* Mutant of SubsetTest: the test view starts at row 0.
SubsetTest_FromRowZero ==
  /\ pc = "subset_test"
  /\ Xtest' = GetSubset(Xdata_randbin, 0, args.Xtest_N)
  /\ pc' = "release"
  /\ UNCHANGED <<args, ytrain, Ytrain, ii, k, instances_new, Xdata_randbin, Xtrain, dims,
                 W, w, EYE, i, yy, pcg, resRead, pred, visited, generated, solveLog,
                 callVars>>

\* line 220: test view.
SubsetTest ==
  /\ pc = "subset_test"
  /\ Xtest' = GetSubset(Xdata_randbin, args.Xtrain_N, args.Xtest_N)
  /\ pc' = "release"
  /\ UNCHANGED <<args, ytrain, Ytrain, ii, k, instances_new, Xdata_randbin, Xtrain, dims,
                 W, w, EYE, i, yy, pcg, resRead, pred, visited, generated, solveLog,
                 callVars>>

\* line 221: release the joint store.
ReleaseStore ==
  /\ pc = "release"
  /\ Xdata_randbin' = ReleasedStore
  /\ pc' = "setup"
  /\ UNCHANGED <<args, ytrain, Ytrain, ii, k, instances_new, Xtrain, Xtest, dims,
                 W, w, EYE, i, yy, pcg, resRead, pred, visited, generated, solveLog,
                 callVars>>

\* lines 227-243: sizes, weights, prediction buffers.
Setup ==
  /\ pc = "setup"
  /\ LET MM == Xtest.cols
         mm == IF args.NumClasses > 2 THEN Ytrain.cols ELSE 1
     IN /\ dims' = [m |-> mm, N |-> Xtest.rows, M |-> MM]
        /\ w' = Zeros(MM)
        /\ W' = IF args.NumClasses > 2 THEN MatrixInit(MM, mm, Zeros(MM)) ELSE W
  /\ pc' = "eye"
  /\ UNCHANGED <<args, ytrain, Ytrain, ii, k, instances_new, Xdata_randbin, Xtrain, Xtest,
                 EYE, i, yy, pcg, resRead, pred, visited, generated, solveLog, callVars>>

\* lines 246-256 and the loop initialisation of line 263.
MakeEye ==
  /\ pc = "eye"
  /\ EYE' = BuildEye(dims.M)
  /\ i' = 0
  /\ pc' = "train"
  /\ UNCHANGED <<args, ytrain, Ytrain, ii, k, instances_new, Xdata_randbin, Xtrain, Xtest,
                 dims, W, w, yy, pcg, resRead, pred, visited, generated, solveLog,
                 callVars>>

\* Mutant of SolveLabels: every solve trains on column 0.
SolveLabels_FirstColumn(c) == IF args.NumClasses > 2 THEN GetColumn(Ytrain, 0) ELSE ytrain

\* The labels solve number c trains on (lines 264-266).
SolveLabels(c) == IF args.NumClasses > 2 THEN GetColumn(Ytrain, c) ELSE ytrain

\* lines 263-270: loop test, right-hand side, solve.
Solve ==
  /\ pc = "train"
  /\ IF i < dims.m
       THEN /\ ytrain' = SolveLabels(i)
            /\ yy' = MatVec(Xtrain, ytrain', "TRANSPOSE")
            /\ \E it \in 0..args.MAXIT :
                 pcg' = [sol |-> PCGSolve(Xtrain, yy', w, EYE, args.MAXIT, ii), Iter |-> it]
            /\ solveLog' = Append(solveLog, [cls |-> i, labels |-> ytrain', rhs |-> yy',
                                             result |-> pcg'.sol])
            /\ pc' = "report"
       ELSE /\ UNCHANGED <<ytrain, yy, pcg, solveLog>>
            /\ pc' = "predict"
  /\ UNCHANGED <<args, Ytrain, ii, k, instances_new, Xdata_randbin, Xtrain, Xtest, dims,
                 W, w, EYE, i, resRead, pred, visited, generated, callVars>>

\* lines 271-276: verbose reporting reads ResHistory[Iter-1].
Report ==
  /\ pc = "report"
  /\ resRead' = IF args.verbose THEN [at |-> pcg.Iter - 1, len |-> pcg.Iter, done |-> TRUE]
                ELSE NoRead
  /\ pc' = "store"
  /\ UNCHANGED <<args, ytrain, Ytrain, ii, k, instances_new, Xdata_randbin, Xtrain, Xtest,
                 dims, W, w, EYE, i, yy, pcg, pred, visited, generated, solveLog,
                 callVars>>

\* lines 277-281: fetch the solution, store it, next class.
StoreSolution ==
  /\ pc = "store"
  /\ w' = pcg.sol
  /\ W' = IF args.NumClasses > 2 THEN SetColumn(W, i, w') ELSE W
  /\ i' = i + 1
  /\ pcg' = NoPcg
  /\ resRead' = NoRead
  /\ pc' = "train"
  /\ UNCHANGED <<args, ytrain, Ytrain, ii, k, instances_new, Xdata_randbin, Xtrain, Xtest,
                 dims, EYE, yy, pred, visited, generated, solveLog, callVars>>

\* lines 288-297: prediction.
Predict ==
  /\ pc = "predict"
  /\ pred' = IF args.NumClasses > 2 THEN MatMat(Xtest, W) ELSE MatVec(Xtest, w, "NORMAL")
  /\ pc' = "end_point"
  /\ UNCHANGED <<args, ytrain, Ytrain, ii, k, instances_new, Xdata_randbin, Xtrain, Xtest,
                 dims, W, w, EYE, i, yy, pcg, resRead, visited, generated, solveLog,
                 callVars>>

\* line 302: the body's objects go out of scope; next sigma.
EndPoint ==
  /\ pc = "end_point"
  /\ instances_new' = <<>>
  /\ Xdata_randbin' = NoStore /\ Xtrain' = NoStore /\ Xtest' = NoStore
  /\ dims' = NoDims
  /\ W' = EmptyMatrix /\ w' = NoVector
  /\ EYE' = NoStore
  /\ yy' = NoVector
  /\ pred' = NoVector
  /\ k' = k + 1
  /\ pc' = "sigma_loop"
  /\ UNCHANGED <<args, ytrain, Ytrain, ii, i, pcg, resRead, visited, generated, solveLog,
                 callVars>>

Next ==
  \/ ConvertLabels
  \/ LambdaLoop
  \/ SigmaLoop
  \/ Generate
  \/ BuildStore
  \/ SubsetTrain
  \/ SubsetTest
  \/ ReleaseStore
  \/ Setup
  \/ MakeEye
  \/ Solve
  \/ Report
  \/ StoreSolution
  \/ Predict
  \/ EndPoint

Spec == Init /\ [][Next]_vars

-----------------------------------------------------------------------------
(* The scorers, lines 392-459.                                             *)
(*                                                                         *)
(* A returned double is the quotient num / den (its square root when sq),  *)
(* with the IEEE outcome for den = 0: NaN for 0/0, infinity otherwise.     *)
(* The early "return NAN" paths return NanError with the message printed.  *)

NanError(msg) == [kind |-> "NAN", msg |-> msg]

Quotient(num, den, sq) == [kind |-> "double", num |-> num, den |-> den, sq |-> sq]

IsNumber(res) == res.kind = "double" /\ res.den # 0

SumSq(s) == SeqSum([q \in 1..Len(s) |-> s[q] * s[q]])

\* lines 414-416 / 453-455: the number of positions counted as correct.
CountHits(hit, n) == SeqSum([q \in 1..n |-> IF hit[q] THEN 1 ELSE 0])

\* lines 392-421.
PerformanceVec(truth, predict, NumClasses) ==
  LET n == Len(truth)
  IN IF n # Len(predict) THEN NanError("Vector lengths mismatch")
     ELSE IF NumClasses # 1 /\ NumClasses # 2
       THEN NanError("Neither regression nor binary classification")
     ELSE IF NumClasses = 1
       THEN Quotient(SumSq([q \in 1..n |-> truth[q] - predict[q]]), SumSq(truth), TRUE)
     ELSE Quotient(CountHits([q \in 1..n |-> truth[q] * predict[q] > 0], n) * 100, n, FALSE)

\* DVector::Max (external): the first position holding the maximum, 0-based.
ArgMax(row) ==
  CHOOSE c \in 0..(Len(row) - 1) :
    /\ \A t \in 1..Len(row) : row[t] <= row[c + 1]
    /\ \A t \in 1..c : row[t] < row[c + 1]

\* lines 440-448: the predicted class of every row, as doubles.
PredictClasses(Ypredict, n) == [q \in 1..n |-> ToDouble(ArgMax(GetRow(Ypredict, q - 1)))]

\* Mutant of PerformanceMat: the predicted class is taken as 1-based.
PerformanceMat_OneBased(truth, Ypredict, NumClasses) ==
  LET n == Len(truth)
  IN IF n # Ypredict.rows \/ Ypredict.cols # NumClasses THEN NanError("Size mismatch")
     ELSE IF NumClasses <= 2 THEN NanError("Not multiclass classification")
     ELSE LET y2 == PredictClasses(Ypredict, n)
          IN Quotient(CountHits([q \in 1..n |-> IntCast(truth[q]) = IntCast(y2[q]) + 1], n) * 100,
                      n, FALSE)

\* lines 425-459.
PerformanceMat(truth, Ypredict, NumClasses) ==
  LET n == Len(truth)
  IN IF n # Ypredict.rows \/ Ypredict.cols # NumClasses THEN NanError("Size mismatch")
     ELSE IF NumClasses <= 2 THEN NanError("Not multiclass classification")
     ELSE LET y2 == PredictClasses(Ypredict, n)
          IN Quotient(CountHits([q \in 1..n |-> IntCast(truth[q]) = IntCast(y2[q])], n) * 100,
                      n, FALSE)

-----------------------------------------------------------------------------
(* Calls of the pure functions on bounded inputs.                          *)

Vectors(vals, maxlen) == UNION {[1..n -> vals] : n \in 0..maxlen}

ClassLabels(nc) == {ToDouble(c) : c \in 0..(nc - 1)}

SignedVals == {ToDouble(-1), 0, ToDouble(1)}

ScoreVals == {0, ToDouble(1)}

MatricesOf(nr, nc) ==
  {[rows |-> nr, cols |-> nc, col |-> cs] : cs \in [1..nc -> [1..nr -> ScoreVals]]}

Shapes(maxrows, maxcols) ==
  {sh \in (0..maxrows) \X (2..maxcols) : sh[1] * sh[2] <= MaxCells}

Matrices(maxrows, maxcols) ==
  UNION {MatricesOf(sh[1], sh[2]) : sh \in Shapes(maxrows, maxcols)}

\* The scenarios of the specification's section 8.
ScenarioVec == [truth |-> <<ToDouble(1), ToDouble(-1), ToDouble(1)>>,
                predict |-> <<2, 1, -3>>, NumClasses |-> 2]

ScenarioMat == [truth |-> <<ToDouble(0), ToDouble(1), ToDouble(0), ToDouble(1)>>,
                Ypredict |-> [rows |-> 4, cols |-> 3,
                              col |-> <<<<ToDouble(1), 0, 0, 0>>,
                                        <<0, ToDouble(1), ToDouble(1), ToDouble(1)>>,
                                        <<0, 0, 0, 0>>>>],
                NumClasses |-> 3]

ConvertCallsOf(nc) ==
  {[ytrain |-> y, NumClasses |-> nc] : y \in Vectors(ClassLabels(nc), MaxLen)}

ConvertCalls == UNION {ConvertCallsOf(nc) : nc \in 1..MaxClasses}

VecCalls ==
  {[truth |-> t, predict |-> p, NumClasses |-> nc] :
     t \in Vectors(SignedVals, MaxLen), p \in Vectors(SignedVals, MaxLen),
     nc \in 0..MaxClasses} \cup {ScenarioVec}

MatCallsOf(nc) ==
  {[truth |-> t, Ypredict |-> Y, NumClasses |-> nc] :
     t \in Vectors(ClassLabels(nc), MaxLen), Y \in Matrices(MaxLen, MaxClasses + 1)}

MatCalls == UNION {MatCallsOf(nc) : nc \in 2..MaxClasses} \cup {ScenarioMat}

Pending == [kind |-> "none"]

InitCalls ==
  /\ fn \in {"ConvertYtrain", "PerformanceVec", "PerformanceMat"}
  /\ arg \in (IF fn = "ConvertYtrain" THEN ConvertCalls
              ELSE IF fn = "PerformanceVec" THEN VecCalls ELSE MatCalls)
  /\ ret = Pending
  /\ pc = "idle"
  /\ args = Args(0, 0, 0, 0, 0, FALSE, 0, 0, <<>>)
  /\ ytrain = <<>>
  /\ Ytrain = EmptyMatrix
  /\ ii = 0 /\ k = 0
  /\ instances_new = <<>>
  /\ Xdata_randbin = NoStore /\ Xtrain = NoStore /\ Xtest = NoStore
  /\ dims = NoDims
  /\ W = EmptyMatrix /\ w = NoVector
  /\ EYE = NoStore
  /\ i = 0
  /\ yy = NoVector
  /\ pcg = NoPcg
  /\ resRead = NoRead
  /\ pred = NoVector
  /\ visited = <<>>
  /\ generated = 0
  /\ solveLog = <<>>

CallConvertYtrain ==
  /\ fn = "ConvertYtrain" /\ ret = Pending
  /\ ret' = [kind |-> "matrix", Y |-> ConvertYtrain(arg.ytrain, arg.NumClasses)]
  /\ UNCHANGED <<fn, arg, mainVars>>

CallPerformanceVec ==
  /\ fn = "PerformanceVec" /\ ret = Pending
  /\ ret' = PerformanceVec(arg.truth, arg.predict, arg.NumClasses)
  /\ UNCHANGED <<fn, arg, mainVars>>

CallPerformanceMat ==
  /\ fn = "PerformanceMat" /\ ret = Pending
  /\ ret' = PerformanceMat(arg.truth, arg.Ypredict, arg.NumClasses)
  /\ UNCHANGED <<fn, arg, mainVars>>

NextCalls ==
  \/ CallConvertYtrain
  \/ CallPerformanceVec
  \/ CallPerformanceMat

SpecCalls == InitCalls /\ [][NextCalls]_vars

-----------------------------------------------------------------------------
(* Properties.                                                             *)

NumPoints == args.Xtrain_N + args.Xtest_N

\* The 0-based ids and the weights the generator gave row q (1-based).
RowIds(q) == [j \in 1..Len(instances_new[q]) |-> instances_new[q][j].first - 1]

RowWeights(q) == [j \in 1..Len(instances_new[q]) |-> instances_new[q][j].second]

\* Store S holds exactly the generated rows from+1 .. from+cnt, in order.
HoldsRows(S, from, cnt) ==
  /\ S.state = "live"
  /\ S.rows = cnt
  /\ Len(S.start) = cnt + 1
  /\ \A q \in 1..cnt :
       /\ SubSeq(S.idx, S.start[q] + 1, S.start[q + 1]) = RowIds(from + q)
       /\ SubSeq(S.X, S.start[q] + 1, S.start[q + 1]) = RowWeights(from + q)

\* C1: once the joint store of a sweep point is populated for N = n_train +
\* n_test rows of r pairs each, start[0] = 0, start[i+1] - start[i] = r for
\* every row, the offsets are non-decreasing, start[N] = nnz = r*N, and the
\* nnz entries written are row i's pairs at positions [start[i], start[i+1]).
C1_JointStoreLayout ==
  Xdata_randbin.state = "live" =>
    LET S == Xdata_randbin
    IN /\ Len(S.start) = NumPoints + 1
       /\ S.start[1] = 0
       /\ \A q \in 1..NumPoints :
            /\ S.start[q + 1] - S.start[q] = args.r
            /\ S.start[q] <= S.start[q + 1]
       /\ S.start[NumPoints + 1] = S.nnz
       /\ S.nnz = args.r * NumPoints
       /\ Len(S.idx) = S.nnz /\ Len(S.X) = S.nnz
       /\ \A q \in 1..NumPoints :
            /\ SubSeq(S.idx, S.start[q] + 1, S.start[q + 1]) = RowIds(q)
            /\ SubSeq(S.X, S.start[q] + 1, S.start[q + 1]) = RowWeights(q)

\* A populated joint store of at least two rows of at least two pairs each,
\* whose rows differ.
C1_Witness ==
  /\ Xdata_randbin.state = "live"
  /\ NumPoints >= 2 /\ args.r >= 2
  /\ args.Xtrain_N >= 1 /\ args.Xtest_N >= 1
  /\ RowIds(1) # RowIds(2)

\* C2: the column count D of the joint store is the largest feature id over
\* all entries of all rows plus one (ids 0-based as stored), so every stored
\* column index lies in [0, D).
C2_ColumnsWithinD ==
  Xdata_randbin.state = "live" =>
    LET S == Xdata_randbin
    IN /\ S.cols = SeqMax([t \in 1..Len(S.idx) |-> S.idx[t] + 1])
       /\ \A t \in 1..Len(S.idx) : 0 <= S.idx[t] /\ S.idx[t] < S.cols

\* The sweep points entered so far.
Entered == {p \in DOMAIN visited : visited[p] >= 1}

AfterSolves == pc \in {"predict", "end_point"}

\* C3: with NumClasses > 2 a sweep point runs exactly m = NumClasses solves
\* in class order, solve i on the right-hand side built from column i of
\* the recoded label matrix, and column i of W holds the vector solve i
\* returned when prediction starts; with NumClasses in {1, 2} it runs one
\* solve on the unmodified training labels and predicts with w.  Prediction
\* happens only after all solves.
C3_OneSolvePerClass ==
  /\ pc \in {"train", "report", "store", "predict", "end_point"} =>
       /\ Len(solveLog) <= dims.m
       /\ \A c \in 1..Len(solveLog) : solveLog[c].cls = c - 1
  /\ pred # NoVector => AfterSolves
  /\ AfterSolves =>
       IF args.NumClasses > 2
         THEN /\ Len(solveLog) = args.NumClasses
              /\ \A c \in 1..args.NumClasses :
                   /\ solveLog[c].labels = GetColumn(Ytrain, c - 1)
                   /\ solveLog[c].rhs = MatVec(Xtrain, GetColumn(Ytrain, c - 1), "TRANSPOSE")
                   /\ GetColumn(W, c - 1) = solveLog[c].result
                   /\ pc = "end_point" => pred.op = "MatMat" /\ pred.A = Xtest
                                          /\ GetColumn(pred.B, c - 1) = solveLog[c].result
         ELSE /\ Len(solveLog) = 1
              /\ solveLog[1].labels = args.ytrain0
              /\ solveLog[1].rhs = MatVec(Xtrain, args.ytrain0, "TRANSPOSE")
              /\ w = solveLog[1].result
              /\ pc = "end_point" => pred.op = "MatVec" /\ pred.A = Xtest
                                     /\ pred.x = solveLog[1].result

\* Prediction of the second sweep point of a three-class run is done, the
\* columns of the label matrix differing.
C3_Witness ==
  /\ pc = "end_point"
  /\ args.NumClasses = 3
  /\ generated = 2
  /\ Len(solveLog) = 3
  /\ GetColumn(Ytrain, 0) # GetColumn(Ytrain, 1)
  /\ pred.op = "MatMat"

\* C4: every (lambda, sigma) pair of the cross product is visited exactly
\* once; its joint store is built from features generated for that visit;
\* the training view is rows [0, n_train) and the test view rows [n_train,
\* n_train + n_test) of it; the joint store is released only after both
\* views were extracted and is not read afterwards; the views stay readable
\* through training and prediction; every store and view of a pair is gone
\* before the next pair's store is constructed.
C4_SweepLifecycle ==
  /\ \A p \in DOMAIN visited : visited[p] <= 1
  /\ pc = "done" => Entered = SweepPoints(args)
  /\ Entered \subseteq {p \in SweepPoints(args) : p[1] < ii \/ (p[1] = ii /\ p[2] <= k)}
  /\ generated = IF pc = "generate" THEN Cardinality(Entered) - 1 ELSE Cardinality(Entered)
  /\ Xdata_randbin.state = "live" <=> pc \in {"subset_train", "subset_test", "release"}
  /\ Xdata_randbin.state = "live" => HoldsRows(Xdata_randbin, 0, NumPoints)
  /\ Xdata_randbin.state = "released" <=>
       pc \in {"setup", "eye", "train", "report", "store", "predict", "end_point"}
  /\ pc \in {"release", "setup", "eye", "train", "report", "store", "predict", "end_point"} =>
       /\ HoldsRows(Xtrain, 0, args.Xtrain_N)
       /\ HoldsRows(Xtest, args.Xtrain_N, args.Xtest_N)
  /\ Xtrain.state # "garbage" /\ Xtest.state # "garbage"
  /\ pc \in {"convert", "lambda_loop", "sigma_loop", "generate", "build", "done"} =>
       /\ Xdata_randbin = NoStore /\ Xtrain = NoStore /\ Xtest = NoStore
       /\ EYE = NoStore

\* The last pair of a 2 x 2 sweep predicts from its views, the joint store
\* released, the training and the test row differing.
C4_Witness ==
  /\ pc = "end_point"
  /\ args.Num_lambda = 2 /\ args.Num_sigma = 2
  /\ ii = 1 /\ k = 1
  /\ generated = 4
  /\ Xdata_randbin.state = "released"
  /\ Xtrain.state = "live" /\ Xtest.state = "live"
  /\ Xtrain.idx # Xtest.idx

\* C9: the identity preconditioner is a well-formed M x M row-compressed
\* store with nnz = M: every row i holds the single entry (i, 1),
\* start[i+1] - start[i] = 1, and start[M] = nnz.
C9_IdentityWellFormed ==
  EYE.state = "live" =>
    /\ EYE.rows = dims.M /\ EYE.cols = dims.M /\ EYE.nnz = dims.M
    /\ Len(EYE.start) = dims.M + 1
    /\ Len(EYE.idx) = EYE.nnz /\ Len(EYE.X) = EYE.nnz
    /\ \A q \in 1..dims.M :
         /\ EYE.start[q + 1] - EYE.start[q] = 1
         /\ EYE.idx[EYE.start[q] + 1] = q - 1
         /\ EYE.X[EYE.start[q] + 1] = ToDouble(1)
    /\ EYE.start[dims.M + 1] = EYE.nnz

\* C10: whenever verbose reporting reads the residual history, the index
\* read, Iter - 1, lies in [0, Iter).
C10_ResHistoryIndexInRange ==
  resRead.done => 0 <= resRead.at /\ resRead.at < resRead.len

-----------------------------------------------------------------------------
(* Properties of the pure functions.                                       *)

Returned(f) == fn = f /\ ret # Pending

\* C5: ConvertYtrain yields an n x NumClasses matrix whose every row has
\* exactly one +1, all other entries -1, the +1 in column i iff the row's
\* original label is i.
C5_OneHotRecoding ==
  Returned("ConvertYtrain") =>
    LET Y == ret.Y
        n == Len(arg.ytrain)
    IN /\ Y.rows = n /\ Y.cols = arg.NumClasses
       /\ Len(Y.col) = arg.NumClasses
       /\ \A c \in 1..arg.NumClasses : Len(Y.col[c]) = n
       /\ \A q \in 1..n :
            /\ \A c \in 1..arg.NumClasses :
                 /\ Y.col[c][q] \in {ToDouble(1), ToDouble(-1)}
                 /\ Y.col[c][q] = ToDouble(1) <=> arg.ytrain[q] = ToDouble(c - 1)
            /\ Cardinality({c \in 1..arg.NumClasses : Y.col[c][q] = ToDouble(1)}) = 1

\* Three classes, at least two rows carrying different labels.
C5_Witness ==
  /\ Returned("ConvertYtrain")
  /\ arg.NumClasses = 3
  /\ Len(arg.ytrain) >= 2
  /\ arg.ytrain[1] # arg.ytrain[2]
  /\ ret.Y.col[3][2] = ToDouble(1)

\* Class c (0-based) is the lowest-index maximum of a row of scores.
IsFirstMax(row, c) ==
  /\ \A t \in 1..Len(row) : row[t] <= row[c + 1]
  /\ \A t \in 1..c : row[t] # row[c + 1]

ValidMatCall ==
  /\ Len(arg.truth) = arg.Ypredict.rows
  /\ arg.Ypredict.cols = arg.NumClasses
  /\ arg.NumClasses > 2

\* The rows whose lowest-index argmax class is the truth label.
MatchingRows ==
  {q \in 1..Len(arg.truth) :
     \E c \in 0..(arg.NumClasses - 1) :
       IsFirstMax(GetRow(arg.Ypredict, q - 1), c) /\ arg.truth[q] = ToDouble(c)}

\* C6: the multiclass scorer predicts the argmax column of every row, ties
\* going to the lowest class index, and returns 100 * matches / n; truth
\* [0,1,0,1] with argmax classes [0,1,1,1] gives 75.
C6_MulticlassAccuracy ==
  Returned("PerformanceMat") /\ ValidMatCall =>
    /\ ret.kind = "double" /\ ~ret.sq
    /\ ret.num = 100 * Cardinality(MatchingRows)
    /\ ret.den = Len(arg.truth)
    /\ arg = ScenarioMat => ret.num = 75 * ret.den

\* Two rows, one a tie between its first and last class that counts as a
\* match for the first, one a mismatch.
C6_Witness ==
  /\ Returned("PerformanceMat") /\ ValidMatCall
  /\ Len(arg.truth) = 2 /\ arg.NumClasses = 3
  /\ GetRow(arg.Ypredict, 0) = <<ToDouble(1), 0, ToDouble(1)>>
  /\ arg.truth[1] = ToDouble(0)
  /\ ret.num = 50 * ret.den

Sign(x) == IF x > 0 THEN 1 ELSE IF x < 0 THEN -1 ELSE 0

SameSignRows == {q \in 1..Len(arg.truth) : Sign(arg.truth[q]) = Sign(arg.predict[q])}

\* C7: the binary scorer returns the percentage of points whose prediction
\* has the sign of the truth value, zero values included, always a value in
\* [0, 100]; truth [+1,-1,+1] with prediction [0.2,0.1,-0.3] counts 1 of 3.
C7_BinaryAccuracy ==
  Returned("PerformanceVec") /\ arg.NumClasses = 2 /\ Len(arg.truth) = Len(arg.predict) =>
    /\ IsNumber(ret)
    /\ ret.num * Len(arg.truth) = 100 * Cardinality(SameSignRows) * ret.den
    /\ 0 <= ret.num /\ ret.num <= 100 * ret.den
    /\ arg = ScenarioVec => ret.num * 3 = 100 * ret.den

\* The calls the scorers must refuse.
MustFail ==
  IF fn = "PerformanceVec"
    THEN Len(arg.truth) # Len(arg.predict) \/ arg.NumClasses \notin {1, 2}
    ELSE \/ Len(arg.truth) # arg.Ypredict.rows
         \/ arg.Ypredict.cols # arg.NumClasses
         \/ arg.NumClasses <= 2

\* C8: both scorers return the NaN failure result exactly on a length
\* mismatch, a column count other than NumClasses, or a NumClasses the
\* overload does not serve; in every other case they return a number.
C8_FailureExactlyOnBadInput ==
  Returned("PerformanceVec") \/ Returned("PerformanceMat") =>
    IF MustFail THEN ret.kind = "NAN" ELSE IsNumber(ret)

====
